---- MODULE Spec2Model ----
(***************************************************************************)
(* Model of src/src/computations.ts (bitoro.js): the valuation of a        *)
(* sub-account (computeSubAccount) and the four trade simulations          *)
(* (computeOpenPosition, computeClosePosition, computeWithdrawCollateral,  *)
(* computeWithdrawProfit) applied by a caller to one sub-account (Spec),   *)
(* and the exported helpers computeRealizeProfit, computeLiquidityFeeRate, *)
(* computePriceWithSpread, computeTradingPrice and computeLiquidityPrice   *)
(* called on their own (FunctionSpec).                                     *)
(*                                                                         *)
(* BigNumber values are exact rationals <<n, d>> in lowest terms with      *)
(* d > 0; plus, minus and times are exact, div rounds to DECIMAL_PLACES    *)
(* decimal places, half away from zero, as bignumber.js does by default.   *)
(* DECIMAL_PLACES is the library's global setting; no function changes it. *)
(* <<1, 0>>, <<-1, 0>> and <<0, 0>> stand for Infinity, -Infinity and NaN, *)
(* which a division by zero produces.                                      *)
(***************************************************************************)
EXTENDS Integers, Sequences, FiniteSets, TLC

VARIABLES market, subAccountId, subAccount, now, res, calls, DECIMAL_PLACES

vars == <<market, subAccountId, subAccount, now, res, calls, DECIMAL_PLACES>>

(***************************************************************************)
(* Bounds of the model.                                                    *)
(***************************************************************************)
\* decimal places kept by div (bignumber.js DECIMAL_PLACES, 20 by default)
\* while the caller chains trade simulations
DecimalPlaces == 2
\* decimal places kept by div while single functions are called; more than
\* the 5 places computeLiquidityFeeRate rounds down to, as 20 is
FunctionDecimalPlaces == 6
\* number of trade simulations the caller chains in one behaviour
MaxCalls == 2
\* last second the clock reaches
MaxTime == 3

(***************************************************************************)
(* BigNumber arithmetic.                                                   *)
(***************************************************************************)
RECURSIVE GCD(_, _)
GCD(a, b) == IF b = 0 THEN a ELSE GCD(b, a % b)

Abs(n) == IF n < 0 THEN -n ELSE n

Sign(n) == IF n < 0 THEN -1 ELSE IF n > 0 THEN 1 ELSE 0

RECURSIVE Pow10(_)
Pow10(k) == IF k = 0 THEN 1 ELSE 10 * Pow10(k - 1)

\* the rational n/d (d > 0) in lowest terms
Norm(n, d) == LET g == GCD(Abs(n), d) IN <<n \div g, d \div g>>

BN(n) == <<n, 1>>

Frac(n, d) == Norm(n, d)

Zero == BN(0)

One == BN(1)

NaN == <<0, 0>>

Infinity(s) == <<s, 0>>

isFinite(a) == a[2] # 0

isNaN(a) == a = NaN

plus(a, b) ==
    LET Sum(l) == Norm(a[1] * (l \div a[2]) + b[1] * (l \div b[2]), l)
    IN  Sum((a[2] \div GCD(a[2], b[2])) * b[2])

negated(a) == <<-a[1], a[2]>>

minus(a, b) == plus(a, negated(b))

times(a, b) ==
    LET Product(g1, g2) ==
            <<(a[1] \div g1) * (b[1] \div g2), (a[2] \div g2) * (b[2] \div g1)>>
    IN  IF a[1] = 0 \/ b[1] = 0 THEN Zero
        ELSE Product(GCD(Abs(a[1]), b[2]), GCD(Abs(b[1]), a[2]))

abs(a) == <<Abs(a[1]), a[2]>>

sgn(a) == Sign(a[1])

\* comparisons of finite values
lt(a, b) == a[1] * b[2] < b[1] * a[2]

gt(a, b) == lt(b, a)

lte(a, b) == ~lt(b, a)

gte(a, b) == ~lt(a, b)

eq(a, b) == a = b

\* BigNumber.min / BigNumber.minimum of finite values
minimum(a, b) == IF lt(b, a) THEN b ELSE a

\* BigNumber.max / BigNumber.maximum; NaN if either is NaN
maximum(a, b) ==
    IF isNaN(a) \/ isNaN(b) THEN NaN
    ELSE IF ~isFinite(a) THEN (IF a[1] > 0 THEN a ELSE b)
    ELSE IF ~isFinite(b) THEN (IF b[1] > 0 THEN b ELSE a)
    ELSE IF gt(b, a) THEN b ELSE a

\* x.dp(places, ROUND_DOWN): truncation toward zero
dpRoundDown(a, places) ==
    LET Truncated(p, g) ==
            Norm(Sign(a[1]) * ((Abs(a[1]) * (p \div g)) \div (a[2] \div g)), p)
        Scaled(p) == Truncated(p, GCD(p, a[2]))
    IN  Scaled(Pow10(places))

\* a.div(b): the quotient rounded to DECIMAL_PLACES places, half away from
\* zero; x/0 is +-Infinity, 0/0 is NaN
div(a, b) ==
    IF isNaN(a) \/ isNaN(b) THEN NaN
    ELSE IF ~isFinite(a)
         THEN (IF ~isFinite(b) THEN NaN
               ELSE Infinity(a[1] * (IF b[1] < 0 THEN -1 ELSE 1)))
    ELSE IF ~isFinite(b) THEN Zero
    ELSE IF b[1] = 0 THEN (IF a[1] = 0 THEN NaN ELSE Infinity(Sign(a[1])))
    ELSE LET Rounded(num, den, p) ==
                 Norm(Sign(a[1]) * Sign(b[1]) * ((2 * num * p + den) \div (2 * den)), p)
             Quotient(g1, g2) ==
                 Rounded((Abs(a[1]) \div g1) * (b[2] \div g2),
                         (a[2] \div g2) * (Abs(b[1]) \div g1),
                         Pow10(DECIMAL_PLACES))
         IN  Quotient(GCD(Abs(a[1]), Abs(b[1])), GCD(a[2], b[2]))

(***************************************************************************)
(* Inputs: the asset list, the price dictionary, the sub-account id.       *)
(***************************************************************************)
\* assets[0] is the stable coin "USD", assets[1] the traded asset "ETH"
AssetVariants == {"normal", "disabled", "stableProfit"}

\* the cumulative funding indexes grow with the time of the snapshot
LongCumulativeFunding(at) == Frac(at, 10)

ShortCumulativeFunding(at) == Frac(at, 5)

\* the Asset[] snapshot taken at second `at`
Assets(at, variant) ==
    (0 :> [symbol |-> "USD", isStable |-> TRUE, isTradable |-> FALSE,
           isOpenable |-> FALSE, isShortable |-> FALSE, isEnabled |-> TRUE,
               useStableTokenForProfit |-> FALSE,
               initialMarginRate |-> Zero, maintenanceMarginRate |-> Zero,
               positionFeeRate |-> Zero, minProfitTime |-> 0,
               minProfitRate |-> Zero, halfSpread |-> Zero,
               longCumulativeFundingRate |-> Zero,
               shortCumulativeFunding |-> Zero,
               spotLiquidity |-> One])
 @@ (1 :> [symbol |-> "ETH", isStable |-> FALSE, isTradable |-> TRUE,
               isOpenable |-> TRUE, isShortable |-> TRUE,
               isEnabled |-> (variant # "disabled"),
               useStableTokenForProfit |-> (variant = "stableProfit"),
               initialMarginRate |-> Frac(1, 10),
               maintenanceMarginRate |-> Frac(1, 20),
               positionFeeRate |-> Frac(1, 10), minProfitTime |-> 1,
               minProfitRate |-> One, halfSpread |-> Frac(1, 10),
               longCumulativeFundingRate |-> LongCumulativeFunding(at),
               shortCumulativeFunding |-> ShortCumulativeFunding(at),
               spotLiquidity |-> One])

length(assets) == Cardinality(DOMAIN assets)

\* PriceDict: symbol -> price; a symbol outside the domain is undefined
Prices(p) == ("USD" :> One) @@ ("ETH" :> BN(p))

ValidPriceDicts == {Prices(2), Prices(3)}

InvalidPriceDicts == {Prices(0), "USD" :> One}

\* the arguments of the trade simulations: the combinations of the valid
\* values, and each kind of invalid value once
OpenInputs ==
    [prices : ValidPriceDicts, amount : {BN(1), BN(2)}, brokerGasFee : {BN(0)}]
    \cup [prices : {Prices(3)}, amount : {BN(1)}, brokerGasFee : {BN(1), BN(-1)}]
    \cup [prices : InvalidPriceDicts, amount : {BN(1)}, brokerGasFee : {BN(0)}]
    \cup [prices : {Prices(2)}, amount : {BN(0)}, brokerGasFee : {BN(0)}]

CloseInputs ==
    [prices : ValidPriceDicts, amount : {BN(1), BN(2)},
     brokerGasFee : {BN(0), BN(1)}, profitAssetId : {0}]
    \cup [prices : InvalidPriceDicts, amount : {BN(1)},
          brokerGasFee : {BN(0)}, profitAssetId : {0}]
    \cup [prices : {Prices(2)}, amount : {BN(0), BN(3)},
          brokerGasFee : {BN(0)}, profitAssetId : {0}]
    \cup [prices : {Prices(2)}, amount : {BN(1)},
          brokerGasFee : {BN(-1)}, profitAssetId : {0}]
    \cup [prices : {Prices(2)}, amount : {BN(1)},
          brokerGasFee : {BN(0)}, profitAssetId : {1, 2}]

WithdrawCollateralInputs ==
    [prices : ValidPriceDicts, amount : {BN(1), BN(2)}]
    \cup [prices : InvalidPriceDicts, amount : {BN(1)}]
    \cup [prices : {Prices(2)}, amount : {BN(0)}]

WithdrawProfitInputs ==
    [prices : ValidPriceDicts, amount : {Frac(1, 10), BN(1)}, profitAssetId : {0}]
    \cup [prices : InvalidPriceDicts, amount : {BN(1)}, profitAssetId : {0}]
    \cup [prices : {Prices(2)}, amount : {BN(0)}, profitAssetId : {0}]
    \cup [prices : {Prices(2)}, amount : {BN(1)}, profitAssetId : {1, 2}]

\* the sub-account id is kept decoded
SubAccountIds ==
    [collateralId : {0, 1}, assetId : {1}, isLong : BOOLEAN]

decodeSubAccountId(id) == id

cloneSubAccount(subAcc) ==
    [collateral |-> subAcc.collateral, size |-> subAcc.size,
     entryPrice |-> subAcc.entryPrice, entryFunding |-> subAcc.entryFunding,
     lastIncreasedTime |-> subAcc.lastIncreasedTime]

(***************************************************************************)
(* Pricing.                                                                *)
(***************************************************************************)
\* computePriceWithSpread with bid and ask exchanged
computePriceWithSpreadSwapped(asset, price, spreadType) ==
    IF eq(asset.halfSpread, Zero) THEN [err |-> "none", price |-> price]
    ELSE LET Spread(halfSpread) ==
                 IF spreadType = "Ask"
                 THEN IF lte(price, halfSpread)
                      THEN [err |-> "BugError"]
                      ELSE [err |-> "none", price |-> minus(price, halfSpread)]
                 ELSE [err |-> "none", price |-> plus(price, halfSpread)]
         IN  Spread(times(price, asset.halfSpread))

\* returns [err, price]
computePriceWithSpread(asset, price, spreadType) ==
    IF eq(asset.halfSpread, Zero) THEN [err |-> "none", price |-> price]
    ELSE LET Spread(halfSpread) ==
                 IF spreadType = "Bid"
                 THEN IF lte(price, halfSpread)
                      THEN [err |-> "BugError"]
                      ELSE [err |-> "none", price |-> minus(price, halfSpread)]
                 ELSE [err |-> "none", price |-> plus(price, halfSpread)]
         IN  Spread(times(price, asset.halfSpread))

\* !price || price.lte(_0)
invalidPrice(prices, symbol) ==
    symbol \notin DOMAIN prices \/ lte(prices[symbol], Zero)

\* returns [err, assetPrice, collateralPrice]
computeTradingPrice(assets, id, prices, isOpenPosition) ==
    LET d == decodeSubAccountId(id)
        Priced(sp) ==
            IF sp.err # "none" THEN [err |-> sp.err]
            ELSE [err |-> "none", assetPrice |-> sp.price,
                  collateralPrice |-> prices[assets[d.collateralId].symbol]]
    IN  IF d.collateralId >= length(assets) THEN [err |-> "InvalidArgumentError"]
        ELSE IF d.assetId >= length(assets) THEN [err |-> "InvalidArgumentError"]
        ELSE IF invalidPrice(prices, assets[d.collateralId].symbol)
             THEN [err |-> "InvalidArgumentError"]
        ELSE IF invalidPrice(prices, assets[d.assetId].symbol)
             THEN [err |-> "InvalidArgumentError"]
        ELSE Priced(computePriceWithSpread(assets[d.assetId],
                        prices[assets[d.assetId].symbol],
                        IF isOpenPosition
                        THEN (IF d.isLong THEN "Ask" ELSE "Bid")
                        ELSE (IF d.isLong THEN "Bid" ELSE "Ask")))

\* returns [err, price]
computeLiquidityPrice(assets, prices, tokenId, isAddLiquidity) ==
    IF tokenId >= length(assets) THEN [err |-> "InvalidArgumentError"]
    ELSE IF invalidPrice(prices, assets[tokenId].symbol)
         THEN [err |-> "InvalidArgumentError"]
    ELSE computePriceWithSpread(assets[tokenId], prices[assets[tokenId].symbol],
                                IF isAddLiquidity THEN "Bid" ELSE "Ask")

(***************************************************************************)
(* Valuation.  `t` is the clock reading Math.ceil(Date.now() / 1000).      *)
(***************************************************************************)
\* computePositionPnlUsd with the lockup one second longer (<= for <)
computePositionPnlUsdLateLockup(asset, subAcc, isLong, amount, assetPrice, t) ==
    LET Realized(priceDelta, pendingPnlUsd) ==
            IF /\ gt(priceDelta, Zero)
               /\ t <= subAcc.lastIncreasedTime + asset.minProfitTime
               /\ lt(abs(priceDelta), times(asset.minProfitRate, subAcc.entryPrice))
            THEN [pendingPnlUsd |-> pendingPnlUsd, pnlUsd |-> Zero]
            ELSE [pendingPnlUsd |-> pendingPnlUsd, pnlUsd |-> pendingPnlUsd]
        Pending(priceDelta) == Realized(priceDelta, times(priceDelta, amount))
    IN  IF eq(amount, Zero) THEN [pendingPnlUsd |-> Zero, pnlUsd |-> Zero]
        ELSE Pending(IF isLong THEN minus(assetPrice, subAcc.entryPrice)
                     ELSE minus(subAcc.entryPrice, assetPrice))

\* computePositionPnlUsd without the lockup
computePositionPnlUsdNoLockup(asset, subAcc, isLong, amount, assetPrice, t) ==
    LET Realized(pendingPnlUsd) ==
            [pendingPnlUsd |-> pendingPnlUsd, pnlUsd |-> pendingPnlUsd]
        Pending(priceDelta) == Realized(times(priceDelta, amount))
    IN  IF eq(amount, Zero) THEN [pendingPnlUsd |-> Zero, pnlUsd |-> Zero]
        ELSE Pending(IF isLong THEN minus(assetPrice, subAcc.entryPrice)
                     ELSE minus(subAcc.entryPrice, assetPrice))

computePositionPnlUsd(asset, subAcc, isLong, amount, assetPrice, t) ==
    LET Realized(priceDelta, pendingPnlUsd) ==
            IF /\ gt(priceDelta, Zero)
               /\ t < subAcc.lastIncreasedTime + asset.minProfitTime
               /\ lt(abs(priceDelta), times(asset.minProfitRate, subAcc.entryPrice))
            THEN [pendingPnlUsd |-> pendingPnlUsd, pnlUsd |-> Zero]
            ELSE [pendingPnlUsd |-> pendingPnlUsd, pnlUsd |-> pendingPnlUsd]
        Pending(priceDelta) == Realized(priceDelta, times(priceDelta, amount))
    IN  IF eq(amount, Zero) THEN [pendingPnlUsd |-> Zero, pnlUsd |-> Zero]
        ELSE Pending(IF isLong THEN minus(assetPrice, subAcc.entryPrice)
                     ELSE minus(subAcc.entryPrice, assetPrice))

computeFundingFeeUsd(subAcc, asset, isLong, assetPrice) ==
    IF eq(subAcc.size, Zero) THEN Zero
    ELSE LET cumulativeFunding ==
                 IF isLong
                 THEN times(minus(asset.longCumulativeFundingRate, subAcc.entryFunding),
                            assetPrice)
                 ELSE minus(asset.shortCumulativeFunding, subAcc.entryFunding)
         IN  times(cumulativeFunding, subAcc.size)

_computePositionFeeUsd(asset, amount, assetPrice) ==
    IF eq(amount, Zero) THEN Zero
    ELSE times(times(assetPrice, asset.positionFeeRate), amount)

_computeFeeUsd(subAcc, asset, isLong, amount, assetPrice) ==
    plus(computeFundingFeeUsd(subAcc, asset, isLong, assetPrice),
         _computePositionFeeUsd(asset, amount, assetPrice))

_estimateLiquidationPrice(assets, collateralId, assetId, isLong, subAcc, collateralPrice, fundingFeeUsd) ==
    LET maintenanceMarginRate == assets[assetId].maintenanceMarginRate
        longFactor == IF isLong THEN One ELSE negated(One)
        Quoted(p) ==
            IF isLong THEN div(p, minus(One, assets[assetId].halfSpread))
            ELSE div(p, plus(One, assets[assetId].halfSpread))
        Price(tt, p0) ==
            Quoted(IF collateralId = assetId
                   THEN maximum(Zero, div(plus(p0, fundingFeeUsd),
                                          plus(tt, subAcc.collateral)))
                   ELSE maximum(Zero,
                            div(minus(plus(p0, fundingFeeUsd),
                                      times(collateralPrice, subAcc.collateral)), tt)))
    IN  IF eq(subAcc.size, Zero) THEN Zero
        ELSE Price(times(minus(longFactor, maintenanceMarginRate), subAcc.size),
                   times(times(longFactor, subAcc.entryPrice), subAcc.size))

computeSubAccount(assets, id, subAcc, collateralPrice, assetPrice, t) ==
    LET d == decodeSubAccountId(id)
        asset == assets[d.assetId]
        Computed(positionValueUsd, fundingFeeUsd, pnl, pendingPnlAfterFundingUsd,
                 pnlAfterFundingUsd, collateralValue, marginBalanceUsd, entryValue,
                 withdrawableCollateral, withdrawableProfit) ==
            [subAccount |-> subAcc,
             computed |->
               [positionValueUsd |-> positionValueUsd,
                fundingFeeUsd |-> fundingFeeUsd,
                pendingPnlUsd |-> pnl.pendingPnlUsd,
                pendingPnlAfterFundingUsd |-> pendingPnlAfterFundingUsd,
                pnlUsd |-> pnl.pnlUsd,
                marginBalanceUsd |-> marginBalanceUsd,
                isIMSafe |-> gte(marginBalanceUsd,
                                 times(positionValueUsd, asset.initialMarginRate)),
                isMMSafe |-> gte(marginBalanceUsd,
                                 times(positionValueUsd, asset.maintenanceMarginRate)),
                isMarginSafe |-> gte(marginBalanceUsd, Zero),
                leverage |-> IF gt(collateralValue, Zero)
                             THEN div(entryValue, collateralValue) ELSE Zero,
                effectiveLeverage |-> IF gt(marginBalanceUsd, Zero)
                                      THEN div(positionValueUsd, marginBalanceUsd)
                                      ELSE Zero,
                pendingRoe |-> IF gt(collateralValue, Zero)
                               THEN div(pendingPnlAfterFundingUsd, collateralValue)
                               ELSE Zero,
                liquidationPrice |->
                    _estimateLiquidationPrice(assets, d.collateralId, d.assetId,
                        d.isLong, subAcc, collateralPrice, fundingFeeUsd),
                withdrawableCollateral |-> withdrawableCollateral,
                withdrawableProfit |-> withdrawableProfit]]
        Profit(profitUsd) == IF d.isLong THEN div(profitUsd, assetPrice) ELSE profitUsd
        Withdrawable(positionValueUsd, fundingFeeUsd, pnl, pendingPnlAfterFundingUsd,
                     pnlAfterFundingUsd, collateralValue, entryValue, safeImr,
                     imHeadroom) ==
            Computed(positionValueUsd, fundingFeeUsd, pnl, pendingPnlAfterFundingUsd,
                     pnlAfterFundingUsd, collateralValue,
                     plus(collateralValue, pendingPnlAfterFundingUsd), entryValue,
                     div(maximum(Zero,
                             minimum(imHeadroom,
                                     minus(minus(collateralValue, fundingFeeUsd),
                                           times(entryValue, safeImr)))),
                         collateralPrice),
                     Profit(maximum(Zero, minimum(imHeadroom, pnlAfterFundingUsd))))
        Margin(positionValueUsd, fundingFeeUsd, pnl, pendingPnlAfterFundingUsd,
               pnlAfterFundingUsd, collateralValue, entryValue, safeImr) ==
            Withdrawable(positionValueUsd, fundingFeeUsd, pnl,
                         pendingPnlAfterFundingUsd, pnlAfterFundingUsd,
                         collateralValue, entryValue, safeImr,
                         minus(plus(collateralValue, pnlAfterFundingUsd),
                               times(positionValueUsd, safeImr)))
        AfterFunding(positionValueUsd, fundingFeeUsd, pnl) ==
            Margin(positionValueUsd, fundingFeeUsd, pnl,
                   minus(pnl.pendingPnlUsd, fundingFeeUsd),
                   minus(pnl.pnlUsd, fundingFeeUsd),
                   times(subAcc.collateral, collateralPrice),
                   times(subAcc.entryPrice, subAcc.size),
                   maximum(asset.initialMarginRate, Frac(1, 100)))
    IN  AfterFunding(times(assetPrice, subAcc.size),
                     computeFundingFeeUsd(subAcc, asset, d.isLong, assetPrice),
                     computePositionPnlUsd(asset, subAcc, d.isLong, subAcc.size,
                                           assetPrice, t))

(***************************************************************************)
(* Profit and loss realization.                                            *)
(***************************************************************************)
\* computeRealizeProfit paying the whole remainder from the spot liquidity
computeRealizeProfitUncapped(profitUsd, feeUsd, profitAsset, profitAssetPrice) ==
    LET Transfer(deductUsd, rest) ==
            [deductUsd |-> deductUsd,
             profitAssetTransferred |->
                 IF gt(rest, Zero) THEN div(rest, profitAssetPrice) ELSE Zero,
             bitoroTokenTransferred |-> Zero]
        Deduct(deductUsd) == Transfer(deductUsd, minus(profitUsd, deductUsd))
    IN  Deduct(minimum(profitUsd, feeUsd))

computeRealizeProfit(profitUsd, feeUsd, profitAsset, profitAssetPrice) ==
    LET Transfer(deductUsd, spot, debtWadAmount) ==
            [deductUsd |-> deductUsd,
             profitAssetTransferred |-> IF gt(spot, Zero) THEN spot ELSE Zero,
             bitoroTokenTransferred |->
                 IF gt(debtWadAmount, Zero) THEN debtWadAmount ELSE Zero]
        Debt(deductUsd, profitCollateral, spot) ==
            Transfer(deductUsd, spot, minus(profitCollateral, spot))
        Spot(deductUsd, profitCollateral) ==
            Debt(deductUsd, profitCollateral,
                 minimum(profitCollateral, profitAsset.spotLiquidity))
        Realize(deductUsd, rest) ==
            IF gt(rest, Zero) THEN Spot(deductUsd, div(rest, profitAssetPrice))
            ELSE [deductUsd |-> deductUsd, profitAssetTransferred |-> Zero,
                  bitoroTokenTransferred |-> Zero]
        Deduct(deductUsd) == Realize(deductUsd, minus(profitUsd, deductUsd))
    IN  Deduct(minimum(profitUsd, feeUsd))

(***************************************************************************)
(* Liquidity fee.                                                          *)
(***************************************************************************)
\* returns [err, rate]
computeLiquidityFeeRate(poolConfig, currentAssetValue, targetAssetValue, isAdd, deltaValue) ==
    LET baseFeeRate == poolConfig.liquidityBaseFeeRate
        dynamicFeeRate == poolConfig.liquidityDynamicFeeRate
        Worsen(avgDiff) ==
            plus(baseFeeRate,
                 dpRoundDown(div(times(dynamicFeeRate,
                                       minimum(avgDiff, targetAssetValue)),
                                 targetAssetValue), 5))
        Rate(oldDiff, newDiff) ==
            IF eq(targetAssetValue, Zero) THEN baseFeeRate
            ELSE IF lt(newDiff, oldDiff)
            THEN maximum(Zero,
                     minus(baseFeeRate,
                           dpRoundDown(div(times(dynamicFeeRate, oldDiff),
                                           targetAssetValue), 5)))
            ELSE Worsen(div(plus(oldDiff, newDiff), BN(2)))
        Diffs(newAssetValue) ==
            [err |-> "none",
             rate |-> Rate(abs(minus(currentAssetValue, targetAssetValue)),
                           abs(minus(newAssetValue, targetAssetValue)))]
    IN  IF isAdd THEN Diffs(plus(currentAssetValue, deltaValue))
        ELSE IF lt(currentAssetValue, deltaValue)
        THEN [err |-> "InsufficientLiquidityError"]
        ELSE Diffs(minus(currentAssetValue, deltaValue))

(***************************************************************************)
(* Objects.  A SubAccount is a mutable object: `heap` maps references to   *)
(* the objects' fields, "arg" being the object the caller passed in.  A    *)
(* context [heap, ref, updates] is the heap, the reference the function's  *)
(* local `subAccount` holds, and the number of _updateEntryFunding calls   *)
(* made so far.                                                            *)
(***************************************************************************)
\* bindClone without the clone: the local `subAccount` stays the caller's object
bindAlias(heap) == [heap |-> heap, ref |-> "arg", updates |-> 0]

\* subAccount = cloneSubAccount(subAccount)
bindClone(heap) ==
    [heap |-> heap @@ ("clone" :> cloneSubAccount(heap["arg"])),
     ref |-> "clone", updates |-> 0]

\* the object the local `subAccount` refers to
sub(ctx) == ctx.heap[ctx.ref]

\* subAccount.<field> = value
set(ctx, field, value) == [ctx EXCEPT !.heap[ctx.ref][field] = value]

\* throw: no result; the caller keeps its object as the heap has it
throw(err, ctx) == [status |-> err, arg |-> ctx.heap["arg"]]

\* throw, with the values local constants had when the error was thrown
throwAt(err, ctx, local) == throw(err, ctx) @@ [local |-> local]

\* _updateEntryFunding with the two indexes exchanged
_updateEntryFundingSwapped(ctx, asset, isLong) ==
    [set(ctx, "entryFunding",
         IF isLong THEN asset.shortCumulativeFunding
         ELSE asset.longCumulativeFundingRate)
     EXCEPT !.updates = @ + 1]

_updateEntryFunding(ctx, asset, isLong) ==
    [set(ctx, "entryFunding",
         IF isLong THEN asset.longCumulativeFundingRate
         ELSE asset.shortCumulativeFunding)
     EXCEPT !.updates = @ + 1]

\* computeRealizeLoss taking the clamping branch whatever isThrowBankrupt is
computeRealizeLossClamped(ctx, collateralPrice, lossUsd, isThrowBankrupt) ==
    LET Deduct(lossCollateral) ==
            [err |-> "none",
             ctx |-> set(ctx, "collateral",
                         minus(sub(ctx).collateral,
                               minimum(lossCollateral, sub(ctx).collateral)))]
    IN  IF eq(lossUsd, Zero) THEN [err |-> "none", ctx |-> ctx]
        ELSE Deduct(div(lossUsd, collateralPrice))

\* returns [err, ctx]
computeRealizeLoss(ctx, collateralPrice, lossUsd, isThrowBankrupt) ==
    LET Deduct(lossCollateral) ==
            IF isThrowBankrupt /\ lt(sub(ctx).collateral, lossCollateral)
            THEN [err |-> "bankrupt", ctx |-> ctx]
            ELSE [err |-> "none",
                  ctx |-> set(ctx, "collateral",
                              minus(sub(ctx).collateral,
                                    IF isThrowBankrupt THEN lossCollateral
                                    ELSE minimum(lossCollateral,
                                                 sub(ctx).collateral)))]
    IN  IF eq(lossUsd, Zero) THEN [err |-> "none", ctx |-> ctx]
        ELSE Deduct(div(lossUsd, collateralPrice))

\* assets[assetId].isStable || !isTradable || ... of open (withOpenable) and
\* of close / withdraw profit
notTradable(assets, d, withOpenable) ==
    \/ assets[d.assetId].isStable
    \/ ~assets[d.assetId].isTradable
    \/ (withOpenable /\ ~assets[d.assetId].isOpenable)
    \/ ~assets[d.assetId].isEnabled
    \/ ~assets[d.collateralId].isEnabled
    \/ (~d.isLong /\ ~assets[d.assetId].isShortable)

\* the profit asset of close / withdraw profit: [err, id, price]
resolveProfitAsset(assets, d, profitAssetId, prices, assetPrice) ==
    IF d.isLong /\ ~assets[d.assetId].useStableTokenForProfit
    THEN [err |-> "none", id |-> d.assetId, price |-> assetPrice]
    ELSE IF profitAssetId >= length(assets) THEN [err |-> "InvalidArgumentError"]
    ELSE IF ~assets[profitAssetId].isStable THEN [err |-> "InvalidArgumentError"]
    ELSE IF invalidPrice(prices, assets[profitAssetId].symbol)
         THEN [err |-> "InvalidArgumentError"]
    ELSE [err |-> "none", id |-> profitAssetId,
          price |-> prices[assets[profitAssetId].symbol]]

(***************************************************************************)
(* Trade simulation.  Each returns [status, arg, ...]: status "ok" with    *)
(* the fields of the returned object, or the error thrown; arg is the      *)
(* caller's object after the call; local holds values of local constants.  *)
(* A function's statements are local operators, last statement first: each *)
(* takes the values computed so far, `ctx` being the heap after the        *)
(* statements before it, and hands its own on to the next.                 *)
(***************************************************************************)
\* openEntryPrice always snapping to the current price
openEntryPriceSnapped(pnlUsd, subAcc, assetPrice, amount, newSize) == assetPrice

\* the entry price computeOpenPosition sets
openEntryPrice(pnlUsd, subAcc, assetPrice, amount, newSize) ==
    IF eq(pnlUsd, Zero) THEN assetPrice
    ELSE div(plus(times(subAcc.entryPrice, subAcc.size), times(assetPrice, amount)),
             newSize)

computeOpenPosition(assets, id, heap, prices, amount, brokerGasFee, t) ==
    LET d == decodeSubAccountId(id)
        asset == assets[d.assetId]
        Result(tp, fundingFeeUsd, feeUsd, pnlUsd, ctx, afterTrade) ==
            [status |-> "ok", arg |-> ctx.heap["arg"], updates |-> ctx.updates,
             afterTrade |-> afterTrade,
             isTradeSafe |-> afterTrade.computed.isIMSafe,
             fundingFeeUsd |-> fundingFeeUsd,
             feeUsd |-> feeUsd,
             local |-> [assetPrice |-> tp.assetPrice,
                        collateralPrice |-> tp.collateralPrice,
                        totalFeeUsd |-> feeUsd,
                        pnlUsd |-> pnlUsd.pnlUsd]]
        \* ctx: after size, entryPrice and lastIncreasedTime are set
        Opened(tp, fundingFeeUsd, feeUsd, pnlUsd, ctx) ==
            Result(tp, fundingFeeUsd, feeUsd, pnlUsd, ctx,
                   computeSubAccount(assets, id, sub(ctx), tp.collateralPrice,
                                     tp.assetPrice, t))
        Increase(tp, fundingFeeUsd, feeUsd, ctx, pnlUsd, newSize) ==
            Opened(tp, fundingFeeUsd, feeUsd, pnlUsd,
                   set(set(set(ctx, "entryPrice",
                               openEntryPrice(pnlUsd.pnlUsd, sub(ctx), tp.assetPrice,
                                              amount, newSize)),
                           "size", newSize),
                       "lastIncreasedTime", t))
        \* ctx: after the fee is taken from the collateral
        Charged(tp, fundingFeeUsd, feeUsd, ctx) ==
            Increase(tp, fundingFeeUsd, feeUsd, ctx,
                     computePositionPnlUsd(asset, sub(ctx), d.isLong, amount,
                                           tp.assetPrice, t),
                     plus(sub(ctx).size, amount))
        \* ctx: after _updateEntryFunding
        Charge(tp, fundingFeeUsd, feeUsd, ctx) ==
            Charged(tp, fundingFeeUsd, feeUsd,
                    set(ctx, "collateral",
                        minus(sub(ctx).collateral,
                              plus(div(feeUsd, tp.collateralPrice), brokerGasFee))))
        Checked(ctx, tp) ==
            IF tp.err # "none" THEN throw(tp.err, ctx)
            ELSE IF lte(amount, Zero) THEN throw("InvalidArgumentError", ctx)
            ELSE IF lt(brokerGasFee, Zero) THEN throw("InvalidArgumentError", ctx)
            ELSE IF notTradable(assets, d, TRUE) THEN throw("InvalidArgumentError", ctx)
            ELSE Charge(tp,
                        computeFundingFeeUsd(sub(ctx), asset, d.isLong, tp.assetPrice),
                        _computeFeeUsd(sub(ctx), asset, d.isLong, amount, tp.assetPrice),
                        _updateEntryFunding(ctx, asset, d.isLong))
    IN  Checked(bindClone(heap), computeTradingPrice(assets, id, prices, TRUE))

\* resetIfFlat leaving entryFunding as it is
resetIfFlatKeepsFunding(ctx) ==
    IF eq(sub(ctx).size, Zero)
    THEN set(set(ctx, "entryPrice", Zero), "lastIncreasedTime", 0)
    ELSE ctx

\* resetIfFlat leaving lastIncreasedTime as it is
resetIfFlatKeepsTime(ctx) ==
    IF eq(sub(ctx).size, Zero)
    THEN set(set(ctx, "entryPrice", Zero), "entryFunding", Zero)
    ELSE ctx

\* if (subAccount.size.eq(_0)) { entryPrice, entryFunding, lastIncreasedTime = 0 }
resetIfFlat(ctx) ==
    IF eq(sub(ctx).size, Zero)
    THEN set(set(set(ctx, "entryPrice", Zero), "entryFunding", Zero),
             "lastIncreasedTime", 0)
    ELSE ctx

\* feeAndGas without the clamp to the collateral
feeAndGasUnclamped(collateral, feeCollateral, brokerGasFee) ==
    [feeAndGasCollateral |-> plus(feeCollateral, brokerGasFee),
     feeCollateral |-> feeCollateral]

\* what computeClosePosition takes from `collateral` for the fee it is still
\* owed (feeCollateral) and the gas: "ignore fees if can not afford"
feeAndGas(collateral, feeCollateral, brokerGasFee) ==
    IF lt(collateral, plus(feeCollateral, brokerGasFee))
    THEN [feeAndGasCollateral |-> collateral,
          feeCollateral |-> IF lt(collateral, brokerGasFee) THEN Zero
                            ELSE minus(collateral, brokerGasFee)]
    ELSE [feeAndGasCollateral |-> plus(feeCollateral, brokerGasFee),
          feeCollateral |-> feeCollateral]

computeClosePosition(assets, id, heap, profitAssetId, prices, amount, brokerGasFee, t) ==
    LET d == decodeSubAccountId(id)
        asset == assets[d.assetId]
        Locals(tp, totalFeeUsd, pnlUsd) ==
            [assetPrice |-> tp.assetPrice, collateralPrice |-> tp.collateralPrice,
             totalFeeUsd |-> totalFeeUsd, pnlUsd |-> pnlUsd]
        Result(tp, pa, totalFeeUsd, pnlUsd, profit, collateralBeforeFee, paidFeeUsd,
               ctx, afterTrade) ==
            [status |-> "ok", arg |-> ctx.heap["arg"], updates |-> ctx.updates,
             afterTrade |-> afterTrade,
             isTradeSafe |-> afterTrade.computed.isMarginSafe,
             feeUsd |-> paidFeeUsd,
             profitAssetTransferred |-> profit.profitAssetTransferred,
             bitoroTokenTransferred |-> profit.bitoroTokenTransferred,
             local |-> Locals(tp, totalFeeUsd, pnlUsd)
                       @@ [profitAssetPrice |-> pa.price,
                           deductUsd |-> profit.deductUsd,
                           collateralBeforeFee |-> collateralBeforeFee]]
        \* ctx: after the fee and the gas are taken from the collateral
        Closed(tp, pa, totalFeeUsd, pnlUsd, profit, collateralBeforeFee, paidFeeUsd,
               ctx) ==
            Result(tp, pa, totalFeeUsd, pnlUsd, profit, collateralBeforeFee, paidFeeUsd,
                   ctx,
                   computeSubAccount(assets, id, sub(ctx), tp.collateralPrice,
                                     tp.assetPrice, t))
        Pay(tp, pa, totalFeeUsd, pnlUsd, profit, ctx, charge, pay) ==
            Closed(tp, pa, totalFeeUsd, pnlUsd, profit, sub(ctx).collateral,
                   IF charge
                   THEN plus(profit.deductUsd,
                             times(pay.feeCollateral, tp.collateralPrice))
                   ELSE profit.deductUsd,
                   IF charge
                   THEN set(ctx, "collateral",
                            minus(sub(ctx).collateral, pay.feeAndGasCollateral))
                   ELSE ctx)
        \* ctx: after the size is reduced and a flat position is reset
        Reduced(tp, pa, totalFeeUsd, pnlUsd, profit, ctx) ==
            Pay(tp, pa, totalFeeUsd, pnlUsd, profit, ctx,
                gt(brokerGasFee, Zero) \/ gt(totalFeeUsd, profit.deductUsd),
                feeAndGas(sub(ctx).collateral,
                          div(minus(totalFeeUsd, profit.deductUsd), tp.collateralPrice),
                          brokerGasFee))
        Realized(tp, pa, totalFeeUsd, pnlUsd, profit, loss) ==
            IF loss.err # "none"
            THEN throwAt(loss.err, loss.ctx, Locals(tp, totalFeeUsd, pnlUsd))
            ELSE Reduced(tp, pa, totalFeeUsd, pnlUsd, profit,
                         resetIfFlat(set(loss.ctx, "size",
                                         minus(sub(loss.ctx).size, amount))))
        \* ctx: after _updateEntryFunding
        Realize(tp, pa, totalFeeUsd, ctx, pnlUsd) ==
            Realized(tp, pa, totalFeeUsd, pnlUsd,
                     IF gt(pnlUsd, Zero)
                     THEN computeRealizeProfit(pnlUsd, totalFeeUsd, assets[pa.id],
                                               pa.price)
                     ELSE [deductUsd |-> Zero, profitAssetTransferred |-> Zero,
                           bitoroTokenTransferred |-> Zero],
                     IF lt(pnlUsd, Zero)
                     THEN computeRealizeLoss(ctx, tp.collateralPrice, negated(pnlUsd),
                                             TRUE)
                     ELSE [err |-> "none", ctx |-> ctx])
        Funded(tp, pa, totalFeeUsd, ctx) ==
            Realize(tp, pa, totalFeeUsd, ctx,
                    computePositionPnlUsd(asset, sub(ctx), d.isLong, amount,
                                          tp.assetPrice, t).pnlUsd)
        Checked(ctx, tp, pa) ==
            IF pa.err # "none" THEN throw(pa.err, ctx)
            ELSE IF lte(amount, Zero) \/ gt(amount, sub(ctx).size)
                 THEN throw("InvalidArgumentError", ctx)
            ELSE IF lt(brokerGasFee, Zero) THEN throw("InvalidArgumentError", ctx)
            ELSE IF notTradable(assets, d, FALSE) THEN throw("InvalidArgumentError", ctx)
            ELSE Funded(tp, pa,
                        _computeFeeUsd(sub(ctx), asset, d.isLong, amount, tp.assetPrice),
                        _updateEntryFunding(ctx, asset, d.isLong))
        Priced(ctx, tp) ==
            IF tp.err # "none" THEN throw(tp.err, ctx)
            ELSE Checked(ctx, tp,
                         resolveProfitAsset(assets, d, profitAssetId, prices,
                                            tp.assetPrice))
    IN  Priced(bindClone(heap), computeTradingPrice(assets, id, prices, FALSE))

computeWithdrawCollateral(assets, id, heap, prices, amount, t) ==
    LET d == decodeSubAccountId(id)
        asset == assets[d.assetId]
        Result(tp, totalFeeUsd, ctx, afterTrade) ==
            [status |-> "ok", arg |-> ctx.heap["arg"], updates |-> ctx.updates,
             afterTrade |-> afterTrade,
             isTradeSafe |-> afterTrade.computed.isIMSafe,
             feeUsd |-> totalFeeUsd,
             local |-> [assetPrice |-> tp.assetPrice,
                        collateralPrice |-> tp.collateralPrice,
                        totalFeeUsd |-> totalFeeUsd]]
        \* ctx: after the amount is taken from the collateral
        Withdrawn(tp, totalFeeUsd, ctx) ==
            Result(tp, totalFeeUsd, ctx,
                   computeSubAccount(assets, id, sub(ctx), tp.collateralPrice,
                                     tp.assetPrice, t))
        \* ctx: after the funding fee is taken from the collateral
        Charged(tp, totalFeeUsd, ctx) ==
            Withdrawn(tp, totalFeeUsd,
                      set(ctx, "collateral", minus(sub(ctx).collateral, amount)))
        \* ctx: after _updateEntryFunding, when there is a position
        Funded(tp, totalFeeUsd, ctx) ==
            Charged(tp, totalFeeUsd,
                    set(ctx, "collateral",
                        minus(sub(ctx).collateral,
                              div(totalFeeUsd, tp.collateralPrice))))
        Checked(ctx, tp) ==
            IF tp.err # "none" THEN throw(tp.err, ctx)
            ELSE IF lte(amount, Zero) THEN throw("InvalidArgumentError", ctx)
            ELSE IF ~assets[d.assetId].isEnabled \/ ~assets[d.collateralId].isEnabled
                 THEN throw("InvalidArgumentError", ctx)
            ELSE Funded(tp,
                        computeFundingFeeUsd(sub(ctx), asset, d.isLong, tp.assetPrice),
                        IF gt(sub(ctx).size, Zero)
                        THEN _updateEntryFunding(ctx, asset, d.isLong)
                        ELSE ctx)
    IN  Checked(bindClone(heap), computeTradingPrice(assets, id, prices, FALSE))

computeWithdrawProfit(assets, id, heap, profitAssetId, prices, amount, t) ==
    LET d == decodeSubAccountId(id)
        asset == assets[d.assetId]
        Locals(tp, pa, totalFeeUsd, deltaUsd, pnlUsd) ==
            [assetPrice |-> tp.assetPrice, collateralPrice |-> tp.collateralPrice,
             profitAssetPrice |-> pa.price, totalFeeUsd |-> totalFeeUsd,
             deltaUsd |-> deltaUsd, pnlUsd |-> pnlUsd]
        Result(tp, pa, totalFeeUsd, deltaUsd, pnlUsd, profit, ctx, afterTrade) ==
            [status |-> "ok", arg |-> ctx.heap["arg"], updates |-> ctx.updates,
             afterTrade |-> afterTrade,
             isTradeSafe |-> afterTrade.computed.isIMSafe,
             feeUsd |-> totalFeeUsd,
             profitAssetTransferred |-> profit.profitAssetTransferred,
             bitoroTokenTransferred |-> profit.bitoroTokenTransferred,
             local |-> Locals(tp, pa, totalFeeUsd, deltaUsd, pnlUsd)]
        \* ctx: after the entry price is shifted
        Shifted(tp, pa, totalFeeUsd, deltaUsd, pnlUsd, profit, ctx) ==
            Result(tp, pa, totalFeeUsd, deltaUsd, pnlUsd, profit, ctx,
                   computeSubAccount(assets, id, sub(ctx), tp.collateralPrice,
                                     tp.assetPrice, t))
        Shift(tp, pa, totalFeeUsd, deltaUsd, pnlUsd, profit, ctx, shift) ==
            Shifted(tp, pa, totalFeeUsd, deltaUsd, pnlUsd, profit,
                    set(ctx, "entryPrice",
                        IF d.isLong THEN plus(sub(ctx).entryPrice, shift)
                        ELSE minus(sub(ctx).entryPrice, shift)))
        \* ctx: after _updateEntryFunding
        Realize(tp, pa, totalFeeUsd, ctx, deltaUsd, pnlUsd) ==
            IF lt(pnlUsd, deltaUsd)
            THEN throwAt("insufficient pnl", ctx,
                         Locals(tp, pa, totalFeeUsd, deltaUsd, pnlUsd))
            ELSE Shift(tp, pa, totalFeeUsd, deltaUsd, pnlUsd,
                       computeRealizeProfit(pnlUsd, totalFeeUsd, assets[pa.id],
                                            pa.price),
                       ctx, div(deltaUsd, sub(ctx).size))
        Funded(tp, pa, totalFeeUsd, ctx) ==
            Realize(tp, pa, totalFeeUsd, ctx,
                    plus(times(amount, pa.price), totalFeeUsd),
                    computePositionPnlUsd(asset, sub(ctx), d.isLong, sub(ctx).size,
                                          tp.assetPrice, t).pnlUsd)
        Checked(ctx, tp, pa) ==
            IF pa.err # "none" THEN throw(pa.err, ctx)
            ELSE IF lte(amount, Zero) THEN throw("InvalidArgumentError", ctx)
            ELSE IF notTradable(assets, d, FALSE) THEN throw("InvalidArgumentError", ctx)
            ELSE IF eq(sub(ctx).size, Zero) THEN throw("InvalidArgumentError", ctx)
            ELSE Funded(tp, pa,
                        computeFundingFeeUsd(sub(ctx), asset, d.isLong, tp.assetPrice),
                        _updateEntryFunding(ctx, asset, d.isLong))
        Priced(ctx, tp) ==
            IF tp.err # "none" THEN throw(tp.err, ctx)
            ELSE Checked(ctx, tp,
                         resolveProfitAsset(assets, d, profitAssetId, prices,
                                            tp.assetPrice))
    IN  Priced(bindClone(heap), computeTradingPrice(assets, id, prices, FALSE))

(***************************************************************************)
(* The caller.  It holds one sub-account, flat at first, and chains up to  *)
(* MaxCalls trade simulations: a successful simulation's                   *)
(* afterTrade.subAccount is the account it passes to the next call.  res   *)
(* records the call being returned from: its name and arguments, the clock *)
(* reading, the fields the argument had when passed (before), and what the *)
(* call returned; op "none" when the caller is between calls.              *)
(***************************************************************************)
InitialCollaterals == {BN(2)}

Flat(collateral) ==
    [collateral |-> collateral, size |-> Zero, entryPrice |-> Zero,
     entryFunding |-> Zero, lastIncreasedTime |-> 0]

Idle == [op |-> "none", status |-> "none"]

\* the clock readings of a call made now or within the next second
Clock == {t \in {now, now + 1} : t <= MaxTime}

Init ==
    /\ market \in AssetVariants
    /\ subAccountId \in SubAccountIds
    \* useStableTokenForProfit is read for long positions only
    /\ market = "stableProfit" => subAccountId.isLong
    /\ subAccount \in {Flat(c) : c \in InitialCollaterals}
    /\ now = 1
    /\ res = Idle
    /\ calls = 0
    /\ DECIMAL_PLACES = DecimalPlaces

Return(op, args, t, r) ==
    /\ res' = [op |-> op, args |-> args, t |-> t, before |-> subAccount] @@ r
    /\ now' = t
    /\ calls' = calls + 1
    /\ UNCHANGED <<market, subAccountId, subAccount, DECIMAL_PLACES>>

OpenPosition ==
    /\ res = Idle
    /\ calls < MaxCalls
    /\ \E t \in Clock, in \in OpenInputs :
          Return("computeOpenPosition", in, t,
                 computeOpenPosition(Assets(t, market), subAccountId,
                     "arg" :> subAccount, in.prices, in.amount, in.brokerGasFee, t))

ClosePosition ==
    /\ res = Idle
    /\ calls < MaxCalls
    /\ \E t \in Clock, in \in CloseInputs :
          Return("computeClosePosition", in, t,
                 computeClosePosition(Assets(t, market), subAccountId,
                     "arg" :> subAccount, in.profitAssetId, in.prices, in.amount,
                     in.brokerGasFee, t))

WithdrawCollateral ==
    /\ res = Idle
    /\ calls < MaxCalls
    /\ \E t \in Clock, in \in WithdrawCollateralInputs :
          Return("computeWithdrawCollateral", in, t,
                 computeWithdrawCollateral(Assets(t, market), subAccountId,
                     "arg" :> subAccount, in.prices, in.amount, t))

WithdrawProfit ==
    /\ res = Idle
    /\ calls < MaxCalls
    /\ \E t \in Clock, in \in WithdrawProfitInputs :
          Return("computeWithdrawProfit", in, t,
                 computeWithdrawProfit(Assets(t, market), subAccountId,
                     "arg" :> subAccount, in.profitAssetId, in.prices, in.amount, t))

\* computeSubAccount called on the caller's account, with the asset snapshot
\* taken at second `at` and prices the caller has spread-adjusted; it may
\* be called again, on the same snapshot, right after it has returned, and
\* res.prev is then that earlier call
ViewPrices == {BN(2), BN(3)}

SubAccountView ==
    /\ res.op \in {"none", "computeSubAccount"}
    /\ calls < MaxCalls
    /\ \E t \in Clock, collateralPrice \in {One}, assetPrice \in ViewPrices :
       \E at \in {a \in {t - 1, t} : res.op = "none" \/ a = res.args.at} :
          /\ res' = [op |-> "computeSubAccount", status |-> "ok", t |-> t,
                     args |-> [at |-> at, collateralPrice |-> collateralPrice,
                               assetPrice |-> assetPrice],
                     before |-> subAccount,
                     prev |-> IF res.op = "none" THEN Idle
                              ELSE [op |-> res.op, t |-> res.t, args |-> res.args,
                                    details |-> res.details],
                     details |-> computeSubAccount(Assets(at, market), subAccountId,
                                     subAccount, collateralPrice, assetPrice, t)]
          /\ now' = t
          /\ UNCHANGED <<market, subAccountId, subAccount, calls, DECIMAL_PLACES>>

\* the caller takes the result: after a successful trade simulation it goes
\* on with afterTrade.subAccount, after an error with the account it had
Continue ==
    /\ res.op # "none"
    /\ subAccount' = IF res.op # "computeSubAccount" /\ res.status = "ok"
                     THEN res.afterTrade.subAccount
                     ELSE subAccount
    /\ res' = Idle
    /\ UNCHANGED <<market, subAccountId, now, calls, DECIMAL_PLACES>>

Next ==
    \/ OpenPosition
    \/ ClosePosition
    \/ WithdrawCollateral
    \/ WithdrawProfit
    \/ SubAccountView
    \/ Continue

Spec == Init /\ [][Next]_vars

(***************************************************************************)
(* Single calls.  The exported helpers are pure functions: a caller calls  *)
(* one of them with arguments of its own, and res records the call and     *)
(* what it returned.                                                       *)
(***************************************************************************)
FunctionInit ==
    /\ market \in AssetVariants
    /\ subAccountId \in SubAccountIds
    /\ subAccount = Flat(Zero)
    /\ now = 1
    /\ res = Idle
    /\ calls = 0
    /\ DECIMAL_PLACES = FunctionDecimalPlaces

\* what a single call leaves alone
FunctionFrame ==
    UNCHANGED <<market, subAccountId, subAccount, now, calls, DECIMAL_PLACES>>

\* every combination of small values, and profitUsd 100, feeUsd 20, price 1,
\* spotLiquidity 50
RealizeProfitInputs ==
    [profitUsd : {BN(-1), BN(0), BN(1), BN(2)},
     feeUsd : {BN(-1), BN(0), Frac(1, 2), BN(3)},
     profitAssetPrice : {BN(1), BN(3)},
     spotLiquidity : {BN(0), Frac(1, 4), BN(50)}]
    \cup [profitUsd : {BN(100)}, feeUsd : {BN(20)},
          profitAssetPrice : {BN(1)}, spotLiquidity : {BN(50)}]

RealizeProfit ==
    /\ res = Idle
    /\ \E in \in RealizeProfitInputs :
        /\ res' = [op |-> "computeRealizeProfit", status |-> "ok", args |-> in,
                   result |-> computeRealizeProfit(in.profitUsd, in.feeUsd,
                                  [Assets(now, market)[1]
                                       EXCEPT !.spotLiquidity = in.spotLiquidity],
                                  in.profitAssetPrice)]
        /\ FunctionFrame

\* a small pool with every combination of rates and values, and a pool
\* that is 1 below its target of 100.001
LiquidityFeeRateInputs ==
    [liquidityBaseFeeRate : {Zero, Frac(1, 1000)},
     liquidityDynamicFeeRate : {Zero, Frac(1, 1000)},
     currentAssetValue : {BN(0), BN(1), BN(5)},
     targetAssetValue : {BN(0), BN(2), BN(3)},
     isAdd : BOOLEAN,
     deltaValue : {BN(0), BN(1), BN(2)}]
    \cup [liquidityBaseFeeRate : {Frac(1, 1000)},
          liquidityDynamicFeeRate : {Frac(1, 1000)},
          currentAssetValue : {Frac(99001, 1000)},
          targetAssetValue : {Frac(100001, 1000)},
          isAdd : BOOLEAN,
          deltaValue : {BN(1)}]

LiquidityFeeRate ==
    /\ res = Idle
    /\ \E in \in LiquidityFeeRateInputs :
        LET Outcome(r) ==
                res' = [op |-> "computeLiquidityFeeRate", args |-> in,
                        status |-> IF r.err = "none" THEN "ok" ELSE r.err]
                       @@ (IF r.err = "none" THEN [result |-> r.rate]
                           ELSE [thrown |-> r.err])
        IN  /\ Outcome(computeLiquidityFeeRate(
                    [liquidityBaseFeeRate |-> in.liquidityBaseFeeRate,
                     liquidityDynamicFeeRate |-> in.liquidityDynamicFeeRate],
                    in.currentAssetValue, in.targetAssetValue, in.isAdd,
                    in.deltaValue))
            /\ FunctionFrame

\* half spreads below, at and above the whole price
HalfSpreads == {Zero, Frac(1, 10), One, Frac(3, 2)}

\* the asset list with the traded asset's half spread set
SpreadAssets(halfSpread) == [Assets(now, market) EXCEPT ![1].halfSpread = halfSpread]

\* a pricing function returns r = [err, ...] to a call with args
ReturnPrice(op, args, r, result) ==
    /\ res' = [op |-> op, args |-> args,
               status |-> IF r.err = "none" THEN "ok" ELSE r.err]
              @@ (IF r.err = "none" THEN [result |-> result] ELSE [thrown |-> r.err])
    /\ FunctionFrame

PriceWithSpreadInputs ==
    [halfSpread : HalfSpreads, price : {Frac(1, 2), BN(1), BN(2)},
     spreadType : {"Bid", "Ask"}]

PriceWithSpread ==
    /\ res = Idle
    /\ \E in \in PriceWithSpreadInputs :
        LET Outcome(r) ==
                ReturnPrice("computePriceWithSpread", in, r,
                       IF r.err = "none" THEN r.price ELSE Zero)
        IN  Outcome(computePriceWithSpread(SpreadAssets(in.halfSpread)[1],
                                            in.price, in.spreadType))

TradingPriceInputs ==
    [halfSpread : HalfSpreads, prices : ValidPriceDicts \cup InvalidPriceDicts,
     isOpenPosition : BOOLEAN]

\* called for the caller's sub-account id
TradingPrice ==
    /\ res = Idle
    /\ \E in \in TradingPriceInputs :
        LET Outcome(r) ==
                ReturnPrice("computeTradingPrice", in, r,
                       IF r.err = "none"
                       THEN [assetPrice |-> r.assetPrice,
                             collateralPrice |-> r.collateralPrice]
                       ELSE Zero)
        IN  Outcome(computeTradingPrice(SpreadAssets(in.halfSpread), subAccountId,
                                         in.prices, in.isOpenPosition))

LiquidityPriceInputs ==
    [halfSpread : HalfSpreads, prices : ValidPriceDicts \cup InvalidPriceDicts,
     tokenId : {0, 1, 2}, isAddLiquidity : BOOLEAN]

LiquidityPrice ==
    /\ res = Idle
    /\ \E in \in LiquidityPriceInputs :
        LET Outcome(r) ==
                ReturnPrice("computeLiquidityPrice", in, r,
                       IF r.err = "none" THEN r.price ELSE Zero)
        IN  Outcome(computeLiquidityPrice(SpreadAssets(in.halfSpread), in.prices,
                                           in.tokenId, in.isAddLiquidity))

FunctionNext ==
    \/ RealizeProfit
    \/ LiquidityFeeRate
    \/ PriceWithSpread
    \/ TradingPrice
    \/ LiquidityPrice

FunctionSpec == FunctionInit /\ [][FunctionNext]_vars

(***************************************************************************)
(* The claims.  They read the call recorded in res.                        *)
(***************************************************************************)
TradeOps == {"computeOpenPosition", "computeClosePosition",
             "computeWithdrawCollateral", "computeWithdrawProfit"}

Returned(op) == res.op = op /\ res.status = "ok"

IsLong == decodeSubAccountId(subAccountId).isLong

\* the traded asset as the call was given it
CallAsset == Assets(res.t, market)[decodeSubAccountId(subAccountId).assetId]

\* the cumulative funding index of the position's direction at the call
CurrentFundingIndex ==
    IF IsLong THEN CallAsset.longCumulativeFundingRate
    ELSE CallAsset.shortCumulativeFunding

\* the funding accrued since the snapshot the account had before the call
AccruedFundingUsd ==
    IF res.before.size = Zero THEN Zero
    ELSE IF IsLong
    THEN times(times(minus(CurrentFundingIndex, res.before.entryFunding),
                     res.local.assetPrice), res.before.size)
    ELSE times(minus(CurrentFundingIndex, res.before.entryFunding), res.before.size)

IsFlat(subAcc) ==
    /\ subAcc.entryPrice = Zero
    /\ subAcc.entryFunding = Zero
    /\ subAcc.lastIncreasedTime = 0

\* C1: the four trade simulations never change a field of the SubAccount
\* object the caller passed in, whether they return a result or throw.
C1_InputNotMutated ==
    res.op \in TradeOps => res.arg = res.before

\* a simulation has returned an account that differs from the one passed in
C1_Witness ==
    /\ Returned("computeClosePosition")
    /\ res.afterTrade.subAccount.collateral # res.before.collateral
    /\ res.afterTrade.subAccount.entryFunding # res.before.entryFunding
    /\ res.arg = res.before

\* the lockup test of computePositionPnlUsd at clock reading t
InLockupTime(t) ==
    t < res.before.lastIncreasedTime + Assets(res.args.at, market)[1].minProfitTime

SameArgsTwice ==
    /\ res.op = "computeSubAccount"
    /\ res.prev.op = "computeSubAccount"
    /\ res.prev.args = res.args

\* C2 as claimed: two computeSubAccount calls with identical arguments return
\* identical output, whenever each is made.
C2_Deterministic ==
    SameArgsTwice => res.details = res.prev.details

\* C2 as amended: two computeSubAccount calls with identical arguments return
\* identical output when both clock readings are on the same side of
\* lastIncreasedTime + minProfitTime.
C2_DeterministicGivenClock ==
    (SameArgsTwice /\ InLockupTime(res.t) = InLockupTime(res.prev.t))
        => res.details = res.prev.details

\* two calls at different seconds, both after the lockup, on a position in profit
C2_Witness ==
    /\ SameArgsTwice
    /\ res.t # res.prev.t
    /\ InLockupTime(res.t) = InLockupTime(res.prev.t)
    /\ gt(res.details.computed.pnlUsd, Zero)

\* the loss of the closed amount in collateral units
ClosedLossCollateral == div(negated(res.local.pnlUsd), res.local.collateralPrice)

\* C3 as claimed: closing at a loss never fails for bankruptcy; the deduction is
\* clamped to the collateral.
C3_LossIsClamped ==
    res.op = "computeClosePosition" => res.status # "bankrupt"

\* C3 as amended: closing at a loss checks for bankruptcy: the call fails with
\* the bankrupt error, and returns nothing, exactly when the loss in collateral
\* units exceeds the collateral; otherwise the whole loss is deducted.
C3_LossChecksBankruptcy ==
    (res.op = "computeClosePosition" /\ res.status \in {"ok", "bankrupt"})
        => /\ res.status = "bankrupt"
                <=> /\ lt(res.local.pnlUsd, Zero)
                    /\ lt(res.before.collateral, ClosedLossCollateral)
           /\ res.status = "bankrupt" => "afterTrade" \notin DOMAIN res
           /\ (res.status = "ok" /\ lt(res.local.pnlUsd, Zero))
                => res.local.collateralBeforeFee
                       = minus(res.before.collateral, ClosedLossCollateral)

\* a close at a loss larger than the collateral has failed
C3_Witness ==
    /\ res.op = "computeClosePosition"
    /\ res.status = "bankrupt"
    /\ gt(res.before.collateral, Zero)

\* the fee computeClosePosition still wants from the collateral, in collateral
OwedFeeCollateral ==
    div(minus(res.local.totalFeeUsd, res.local.deductUsd), res.local.collateralPrice)

CannotAfford ==
    lt(res.local.collateralBeforeFee, plus(OwedFeeCollateral, res.args.brokerGasFee))

\* C4: a successful close of an account with collateral >= 0 leaves collateral
\* >= 0; when the collateral cannot cover the unpaid fee plus the gas, all of it
\* is taken, gas first, and feeUsd counts only what is left after the gas.
C4_CloseKeepsCollateralNonNegative ==
    (Returned("computeClosePosition") /\ gte(res.before.collateral, Zero))
        => /\ gte(res.afterTrade.subAccount.collateral, Zero)
           /\ CannotAfford
                => /\ res.afterTrade.subAccount.collateral = Zero
                   /\ res.feeUsd
                        = plus(res.local.deductUsd,
                               times(maximum(Zero,
                                         minus(res.local.collateralBeforeFee,
                                               res.args.brokerGasFee)),
                                     res.local.collateralPrice))

\* a close whose collateral covers neither the fee nor the gas
C4_Witness ==
    /\ Returned("computeClosePosition")
    /\ gt(res.before.collateral, Zero)
    /\ CannotAfford
    /\ gt(res.args.brokerGasFee, res.local.collateralBeforeFee)
    /\ gt(res.local.collateralBeforeFee, Zero)

SizeInvariant(subAcc) ==
    /\ gte(subAcc.size, Zero)
    /\ subAcc.size = Zero => IsFlat(subAcc)

\* C5: from a flat account, after any sequence of successful simulations each
\* applied to the previous result, size >= 0, and size = 0 implies entryPrice,
\* entryFunding and lastIncreasedTime are 0.
C5_SizeInvariant ==
    /\ SizeInvariant(subAccount)
    /\ (res.op \in TradeOps /\ res.status = "ok")
         => SizeInvariant(res.afterTrade.subAccount)

\* the second simulation of a chain has closed the position the first opened
C5_Witness ==
    /\ calls = MaxCalls
    /\ Returned("computeClosePosition")
    /\ res.before.entryFunding # Zero
    /\ res.afterTrade.subAccount.size = Zero

\* C6: a successful close of the whole position returns an account with size,
\* entryPrice, entryFunding and lastIncreasedTime 0.
C6_FullCloseResets ==
    (Returned("computeClosePosition") /\ res.args.amount = res.before.size)
        => /\ res.afterTrade.subAccount.size = Zero
           /\ IsFlat(res.afterTrade.subAccount)

\* a short position has been closed whole at a loss
C6_Witness ==
    /\ Returned("computeClosePosition")
    /\ res.args.amount = res.before.size
    /\ ~IsLong
    /\ lt(res.local.pnlUsd, Zero)
    /\ res.before.entryFunding # Zero

\* C7: a successful computeWithdrawProfit transfers out, in profit-asset units,
\* exactly the requested amount.
C7_TransfersRequestedAmount ==
    Returned("computeWithdrawProfit")
        => plus(res.profitAssetTransferred, res.bitoroTokenTransferred)
               = res.args.amount

\* the realized pnl of the whole position, zero during the lockup
RealizedPnlUsd ==
    LET priceDelta == IF IsLong THEN minus(res.local.assetPrice, res.before.entryPrice)
                      ELSE minus(res.before.entryPrice, res.local.assetPrice)
    IN  IF /\ gt(priceDelta, Zero)
           /\ res.t < res.before.lastIncreasedTime + CallAsset.minProfitTime
           /\ lt(priceDelta, times(CallAsset.minProfitRate, res.before.entryPrice))
        THEN Zero
        ELSE times(priceDelta, res.before.size)

RequestedUsd ==
    plus(times(res.args.amount, res.local.profitAssetPrice), AccruedFundingUsd)

\* C8: computeWithdrawProfit fails with insufficient pnl, returning nothing,
\* exactly when amount * profitAssetPrice + fundingFeeUsd exceeds the realized
\* pnl of the whole position.
C8_InsufficientPnl ==
    (res.op = "computeWithdrawProfit" /\ res.status \in {"ok", "insufficient pnl"})
        => /\ res.status = "insufficient pnl" <=> gt(RequestedUsd, RealizedPnlUsd)
           /\ res.status = "insufficient pnl" => "afterTrade" \notin DOMAIN res

\* a withdrawal has failed during the lockup of a position in profit
C8_Witness ==
    /\ res.op = "computeWithdrawProfit"
    /\ res.status = "insufficient pnl"
    /\ RealizedPnlUsd = Zero
    /\ IF IsLong THEN gt(res.local.assetPrice, res.before.entryPrice)
       ELSE lt(res.local.assetPrice, res.before.entryPrice)

\* the price an open executes at: ask for a long, bid for a short
OpenExecutionPrice ==
    LET price == res.args.prices["ETH"]
    IN  IF IsLong THEN plus(price, times(price, CallAsset.halfSpread))
        ELSE minus(price, times(price, CallAsset.halfSpread))

\* C9: a successful open returns size = old size + amount, and the execution
\* price as entry price when the trade has no realized pnl, else the average
\* (entryPrice * oldSize + assetPrice * amount) / newSize; from a flat account
\* the entry price is the execution price and the size is the amount.
C9_OpenSizeAndEntryPrice ==
    Returned("computeOpenPosition")
        => LET after == res.afterTrade.subAccount
               average == div(plus(times(res.before.entryPrice, res.before.size),
                                   times(OpenExecutionPrice, res.args.amount)),
                              plus(res.before.size, res.args.amount))
           IN  /\ after.size = plus(res.before.size, res.args.amount)
               /\ after.entryPrice = IF res.local.pnlUsd = Zero
                                     THEN OpenExecutionPrice ELSE average
               /\ res.before.size = Zero
                    => after.entryPrice = OpenExecutionPrice
                       /\ after.size = res.args.amount

\* a position has been increased at a price that is not its entry price
C9_Witness ==
    /\ Returned("computeOpenPosition")
    /\ gt(res.before.size, Zero)
    /\ res.local.pnlUsd # Zero
    /\ res.afterTrade.subAccount.entryPrice # OpenExecutionPrice
    /\ res.afterTrade.subAccount.entryPrice # res.before.entryPrice

\* the position fee of open and close
PositionFeeUsd ==
    IF res.op \in {"computeOpenPosition", "computeClosePosition"}
    THEN times(times(res.local.assetPrice, CallAsset.positionFeeRate), res.args.amount)
    ELSE Zero

\* C10: every simulation charges the funding accrued since the snapshot the
\* account had before the call, then sets entryFunding once to the current
\* cumulative index of the position's direction; so a post-trade account with
\* size > 0 has entryFunding at the current index and fundingFeeUsd 0.
C10_FundingFeeThenSnapshot ==
    (res.op \in TradeOps /\ res.status = "ok")
        => /\ res.local.totalFeeUsd = plus(AccruedFundingUsd, PositionFeeUsd)
           /\ res.op = "computeOpenPosition" => res.fundingFeeUsd = AccruedFundingUsd
           /\ res.updates = IF res.op = "computeWithdrawCollateral"
                               /\ res.before.size = Zero
                            THEN 0 ELSE 1
           /\ gt(res.afterTrade.subAccount.size, Zero)
                => /\ res.afterTrade.subAccount.entryFunding = CurrentFundingIndex
                   /\ res.afterTrade.computed.fundingFeeUsd = Zero

\* funding had accrued on a position, was charged, and the position stays open
C10_Witness ==
    /\ res.op \in TradeOps
    /\ res.status = "ok"
    /\ gt(res.before.size, Zero)
    /\ gt(AccruedFundingUsd, Zero)
    /\ gt(res.afterTrade.subAccount.size, Zero)
    /\ res.before.entryFunding # CurrentFundingIndex

(***************************************************************************)
(* C11: computeRealizeProfit.                                              *)
(***************************************************************************)
\* the remainder of the profit after the fee, in USD
RemainderUsd == minus(res.args.profitUsd, res.result.deductUsd)

\* what the result accounts for, in USD
AccountedUsd ==
    plus(res.result.deductUsd,
         times(plus(res.result.profitAssetTransferred,
                    res.result.bitoroTokenTransferred),
               res.args.profitAssetPrice))

\* half a unit of the last decimal place div keeps
HalfUnit == <<1, 2 * Pow10(DECIMAL_PLACES)>>

\* C11 as stated: deductUsd is min(profitUsd, feeUsd), the transfers are
\* not negative, and deductUsd + (profitAssetTransferred +
\* bitoroTokenTransferred) * price is exactly profitUsd.
C11_ProfitIsConserved ==
    res.op = "computeRealizeProfit" =>
        /\ res.result.deductUsd = minimum(res.args.profitUsd, res.args.feeUsd)
        /\ gte(res.result.profitAssetTransferred, Zero)
        /\ gte(res.result.bitoroTokenTransferred, Zero)
        /\ AccountedUsd = res.args.profitUsd

\* C11: computeRealizeProfit returns deductUsd = min(profitUsd, feeUsd); the
\* remainder profitUsd - deductUsd divided by the price, the quotient rounded
\* to DECIMAL_PLACES places, is split into profitAssetTransferred = min(that
\* quotient, spotLiquidity) and bitoroTokenTransferred = the rest, neither
\* negative; deductUsd + (profitAssetTransferred + bitoroTokenTransferred) *
\* price differs from profitUsd by at most the rounding of the quotient, half
\* a unit of the last place times the price, and by nothing when the quotient
\* is exact; profitUsd 100, feeUsd 20, price 1, spotLiquidity 50 give 20, 50, 30.
C11_ProfitIsConservedUpToRounding ==
    res.op = "computeRealizeProfit" =>
        LET quotient == div(RemainderUsd, res.args.profitAssetPrice)
        IN  /\ res.result.deductUsd = minimum(res.args.profitUsd, res.args.feeUsd)
            /\ res.result.profitAssetTransferred
                   = minimum(quotient, res.args.spotLiquidity)
            /\ res.result.bitoroTokenTransferred
                   = minus(quotient, res.result.profitAssetTransferred)
            /\ gte(res.result.profitAssetTransferred, Zero)
            /\ gte(res.result.bitoroTokenTransferred, Zero)
            /\ lte(abs(minus(res.args.profitUsd, AccountedUsd)),
                   times(res.args.profitAssetPrice, HalfUnit))
            /\ times(quotient, res.args.profitAssetPrice) = RemainderUsd
                   => AccountedUsd = res.args.profitUsd
            /\ res.args = [profitUsd |-> BN(100), feeUsd |-> BN(20),
                           profitAssetPrice |-> BN(1), spotLiquidity |-> BN(50)]
                   => res.result = [deductUsd |-> BN(20),
                                    profitAssetTransferred |-> BN(50),
                                    bitoroTokenTransferred |-> BN(30)]

\* a remainder whose quotient is rounded is split between spot liquidity
\* and debt token
C11_Witness ==
    /\ res.op = "computeRealizeProfit"
    /\ gt(res.result.profitAssetTransferred, Zero)
    /\ gt(res.result.bitoroTokenTransferred, Zero)
    /\ AccountedUsd # res.args.profitUsd

(***************************************************************************)
(* C12: computeLiquidityFeeRate.                                           *)
(***************************************************************************)
FeeCall == res.op = "computeLiquidityFeeRate"

\* the value of the asset after the operation
NewAssetValue ==
    IF res.args.isAdd THEN plus(res.args.currentAssetValue, res.args.deltaValue)
    ELSE minus(res.args.currentAssetValue, res.args.deltaValue)

OldDiff == abs(minus(res.args.currentAssetValue, res.args.targetAssetValue))

NewDiff == abs(minus(NewAssetValue, res.args.targetAssetValue))

\* the exact quotient a / b, b > 0
Ratio(a, b) == Norm(a[1] * b[2], a[2] * b[1])

\* a >= 0 rounded down to 5 decimals
RoundedDown5(a) == Norm((a[1] * Pow10(5)) \div a[2], Pow10(5))

\* half the sum of the deviations, capped at the target
CappedAverageDiff ==
    minimum(Ratio(plus(OldDiff, NewDiff), BN(2)), res.args.targetAssetValue)

\* removing more than the current value fails, and nothing else does
C12_RemovalIsChecked ==
    FeeCall =>
        (res.status = "InsufficientLiquidityError"
            <=> (~res.args.isAdd
                 /\ gt(res.args.deltaValue, res.args.currentAssetValue)))

\* the fee is the base rate with target 0, between 0 and the base rate when
\* the deviation shrinks, at least the base rate otherwise
C12_FeeIsBounded ==
    FeeCall /\ res.status = "ok" =>
        IF res.args.targetAssetValue = Zero
        THEN res.result = res.args.liquidityBaseFeeRate
        ELSE IF lt(NewDiff, OldDiff)
        THEN gte(res.result, Zero) /\ lte(res.result, res.args.liquidityBaseFeeRate)
        ELSE gte(res.result, res.args.liquidityBaseFeeRate)

\* the rebate and the surcharge are the quotients rounded down to 5 decimals
C12_FeeIsRoundedDown ==
    FeeCall /\ res.status = "ok" /\ res.args.targetAssetValue # Zero =>
        IF lt(NewDiff, OldDiff)
        THEN res.result
               = maximum(Zero,
                     minus(res.args.liquidityBaseFeeRate,
                           RoundedDown5(Ratio(times(res.args.liquidityDynamicFeeRate,
                                                    OldDiff),
                                              res.args.targetAssetValue))))
        ELSE res.result
               = plus(res.args.liquidityBaseFeeRate,
                      RoundedDown5(Ratio(times(res.args.liquidityDynamicFeeRate,
                                               CappedAverageDiff),
                                         res.args.targetAssetValue)))

\* C12: computeLiquidityFeeRate fails with an insufficient-liquidity error
\* when more than the current asset value is removed; otherwise the fee is
\* the base rate when target is 0, max(0, base - rebate) with rebate =
\* dynamicFeeRate * oldDiff / target rounded down to 5 decimals when the
\* deviation from target shrinks (so 0 <= fee <= base), and base +
\* dynamicFeeRate * min((oldDiff + newDiff) / 2, target) / target rounded
\* down to 5 decimals when it does not (so fee >= base).
C12_LiquidityFeeRate ==
    C12_RemovalIsChecked /\ C12_FeeIsBounded /\ C12_FeeIsRoundedDown

(***************************************************************************)
(* C13: execution prices.                                                  *)
(***************************************************************************)
AskOf(price, halfSpread) == plus(price, times(price, halfSpread))

BidOf(price, halfSpread) == minus(price, times(price, halfSpread))

\* what a call that asks for the bid (isBid) or the ask of `price` returns
QuotedAs(isBid, price, halfSpread) ==
    IF isBid /\ lte(BidOf(price, halfSpread), Zero)
    THEN res.status = "BugError"
    ELSE /\ res.status = "ok"
         /\ gt(price, Zero) => gt(res.result, Zero)
         /\ res.result = IF isBid THEN BidOf(price, halfSpread)
                         ELSE AskOf(price, halfSpread)
         /\ halfSpread = Zero => res.result = price

\* the half spread of the asset a call prices
PricedHalfSpread(id) == SpreadAssets(res.args.halfSpread)[id].halfSpread

\* computePriceWithSpread: ask = price + price * halfSpread, bid = price -
\* price * halfSpread, or a BugError when that is not positive
C13_PriceWithSpread ==
    res.op = "computePriceWithSpread" =>
        QuotedAs(res.args.spreadType = "Bid", res.args.price, res.args.halfSpread)

\* computeTradingPrice: ask to open a long and to close a short, bid to
\* open a short and to close a long
C13_TradingPrice ==
    res.op = "computeTradingPrice" =>
        IF res.args.prices \in InvalidPriceDicts
        THEN res.status = "InvalidArgumentError"
        ELSE LET isBid == res.args.isOpenPosition # IsLong
                 price == res.args.prices["ETH"]
             IN  IF isBid /\ lte(BidOf(price, res.args.halfSpread), Zero)
                 THEN res.status = "BugError"
                 ELSE /\ res.status = "ok"
                      /\ gt(res.result.assetPrice, Zero)
                      /\ res.result.assetPrice
                            = IF isBid THEN BidOf(price, res.args.halfSpread)
                              ELSE AskOf(price, res.args.halfSpread)
                      /\ res.args.halfSpread = Zero => res.result.assetPrice = price

\* computeLiquidityPrice: bid to add liquidity, ask to remove it
C13_LiquidityPrice ==
    res.op = "computeLiquidityPrice" =>
        IF res.args.tokenId = 2
           \/ (res.args.tokenId = 1 /\ res.args.prices \in InvalidPriceDicts)
        THEN res.status = "InvalidArgumentError"
        ELSE QuotedAs(res.args.isAddLiquidity,
                      res.args.prices[SpreadAssets(Zero)[res.args.tokenId].symbol],
                      PricedHalfSpread(res.args.tokenId))

\* C13: opening a long and removing liquidity use the ask, opening a short
\* and adding liquidity the bid, closing a long the bid, closing a short the
\* ask; ask = price + price * halfSpread, bid = price - price * halfSpread,
\* a half spread of 0 returns the price unchanged, a bid that would not be
\* positive fails with a BugError, which is not the InvalidArgumentError of
\* a bad price, and every price returned for a positive price is positive.
C13_ExecutionPrices ==
    C13_PriceWithSpread /\ C13_TradingPrice /\ C13_LiquidityPrice

\* closing a long position is priced at the bid, below the price given
C13_Witness ==
    /\ res.op = "computeTradingPrice"
    /\ res.status = "ok"
    /\ IsLong /\ ~res.args.isOpenPosition
    /\ res.result.assetPrice = BidOf(res.args.prices["ETH"], res.args.halfSpread)
    /\ lt(res.result.assetPrice, res.args.prices["ETH"])

====
